---- MODULE Spec2Model ----
(***************************************************************************)
(* github-repo-activity: the report pipeline (repo-activity.go), the       *)
(* command-line program (cmd/github-repo-activity main) and the HTTP       *)
(* server's Report handler (server.go).                                    *)
(*                                                                         *)
(* Conventions.  A Go pointer or nilable value is a sequence of length at  *)
(* most one: <<>> is nil, <<v>> points at v.  A Go error is a string, ""   *)
(* being the nil error.  A string that the program parses is a sequence of *)
(* pieces: decimal texts are sequences of characters, the comma separated  *)
(* repository list is a sequence of names and "," separators.  A search    *)
(* query is the sequence of its space separated filters.  Search results   *)
(* carry every field the program dereferences (CreatedAt, RepositoryURL,   *)
(* User, Number, ...), as the search backend always supplies them.         *)
(***************************************************************************)
EXTENDS Integers, Sequences, FiniteSets, TLC

VARIABLES
    flags,      \* command line of the CLI program, as parsed by flag.Parse
    env,        \* environment of the server program
    options,    \* the GitHubRepoActivityOptions (CLI: main's; server: srv.options, shared)
    pc,         \* position of each process (CLI main, or one HTTP handler invocation)
    kind,       \* issueType argument of the running FetchIssues call
    query,      \* FetchIssues local `query`
    page,       \* FetchIssues local opt.ListOptions.Page
    nreq,       \* number of Search.Issues calls made by the running FetchIssues call
    lastResp,   \* FetchIssues local `resp` of the latest successful call: its NextPage
    received,   \* the result items the running FetchIssues call received, in order of arrival
    issueList,  \* FetchIssues local `issueList`
    issues,     \* BuildReport local `issues` (nil until the first fetch returned)
    prs,        \* BuildReport local `prs`
    err,        \* BuildReport's returned error
    report,     \* BuildReport's returned *ActivityReport
    searched,   \* whether the process has called Search.Issues since it started
    req,        \* the HTTP request a handler is serving: its `days` query parameter
    resp,       \* the HTTP response a handler has written: status and body parts
    exitCode,   \* exit status of the process, -1 while it runs
    stdout,     \* what the CLI process printed
    sigChan,    \* server main's channel c: whether a signal is waiting in it
    startShutdown, \* server main's channel startShutdown: whether it is closed
    ctx,        \* server main's context: "live" or "canceled"
    gopc,       \* position of each goroutine server main starts
    groupErr,   \* the errgroup's error: the first one a goroutine returned
    httpServer  \* srv.httpServer: "new", "listening" or "shutdown"

vars == <<flags, env, options, pc, kind, query, page, nreq, lastResp, received,
          issueList, issues, prs, err, report, searched, req, resp, exitCode, stdout,
          sigChan, startShutdown, ctx, gopc, groupErr, httpServer>>

buildVars == <<kind, query, page, nreq, lastResp, received, issueList, issues, prs, err, report>>

mainVars == <<sigChan, startShutdown, ctx, gopc, groupErr, httpServer>>

----------------------------------------------------------------------------
(* Bounds of the exploration *)

\* most Search.Issues calls one FetchIssues call is followed through
MaxRequests == 2
\* most records the backend holds for one query
MaxItems == 2
\* the main goroutine of the program (command-line or server)
Main == 0
\* the goroutines net/http runs srv.Report on, one per request in flight
Handlers == {1, 2}
Procs == {Main} \cup Handlers

\* the goroutines main of cmd/server starts: the one that waits for a signal,
\* and the two of the errgroup, which stop and start the server
Goroutines == {"signal", "stop", "start"}

\* repository names that occur on command lines and in the environment
RepoNames == {"a/b", "c/d"}

----------------------------------------------------------------------------
(* Library functions the program calls, modelled by what they do *)

Digits == <<"0", "1", "2", "3", "4", "5", "6", "7", "8", "9">>

IsDigit(c) == \E i \in 1 .. 10 : Digits[i] = c

DigitVal(c) == (CHOOSE i \in 1 .. 10 : Digits[i] = c) - 1

RECURSIVE DecVal(_)
DecVal(s) == IF s = <<>> THEN 0 ELSE 10 * DecVal(SubSeq(s, 1, Len(s) - 1)) + DigitVal(s[Len(s)])

\* strconv.Atoi on a text given as its characters: an optional sign, then
\* one or more decimal digits; anything else is an error (and the value 0)
Atoi(s) ==
    LET signed == s # <<>> /\ s[1] \in {"+", "-"}
        body == IF signed THEN Tail(s) ELSE s
        bad == body = <<>> \/ \E i \in 1 .. Len(body) : ~IsDigit(body[i])
    IN  IF bad THEN [err |-> TRUE, val |-> 0]
        ELSE [err |-> FALSE,
              val |-> IF signed /\ s[1] = "-" THEN 0 - DecVal(body) ELSE DecVal(body)]

\* strings.Split(s, ",") on a text given as names and "," separators: the
\* pieces between the separators, an empty piece where two separators (or a
\* separator and an end of the text) are adjacent; Split("") is [""]
RECURSIVE Split(_)
Split(s) ==
    IF \A i \in 1 .. Len(s) : s[i] # ","
    THEN <<IF s = <<>> THEN "" ELSE s[1]>>
    ELSE LET i == CHOOSE k \in 1 .. Len(s) : s[k] = "," /\ \A j \in 1 .. k - 1 : s[j] # ","
         IN  <<IF i = 1 THEN "" ELSE s[1]>> \o Split(SubSeq(s, i + 1, Len(s)))

\* time.Now(), as a day number
Today == 100

\* the API host whose prefix FetchIssues strips from RepositoryURL
ApiHost == "https://api.github.com/repos/"
\* the same prefix on a self-hosted instance (-api-endpoint)
CustomHost == "https://ghe.example/api/v3/repos/"

\* a repository URL is [host, path]; as a string it is host followed by path
URLString(u) ==
    CASE u.host = ApiHost /\ u.path = "a/b" -> "https://api.github.com/repos/a/b"
      [] u.host = ApiHost /\ u.path = "c/d" -> "https://api.github.com/repos/c/d"
      [] u.host = CustomHost /\ u.path = "a/b" -> "https://ghe.example/api/v3/repos/a/b"
      [] OTHER -> "https://ghe.example/api/v3/repos/c/d"

\* strings.TrimPrefix(*issue.RepositoryURL, "https://api.github.com/repos/")
TrimPrefix(u) == IF u.host = ApiHost THEN u.path ELSE URLString(u)

----------------------------------------------------------------------------
(* repo-activity.go *)

\* a BuildQuery that leaves the last repository out of the query
BuildQueryShort(issueType, opts) ==
    <<[f |-> "is", v |-> issueType, d |-> 0]>>
    \o [i \in 1 .. Len(opts.Repos) - 1 |-> [f |-> "repo", v |-> opts.Repos[i], d |-> 0]]
    \o <<[f |-> "created>=", v |-> "", d |-> Today - opts.DaysOld]>>

\* BuildQuery: "is:<type> <repo filters joined by a space> created:>=<date>"
BuildQuery(issueType, opts) ==
    <<[f |-> "is", v |-> issueType, d |-> 0]>>
    \o [i \in 1 .. Len(opts.Repos) |-> [f |-> "repo", v |-> opts.Repos[i], d |-> 0]]
    \o <<[f |-> "created>=", v |-> "", d |-> Today - opts.DaysOld]>>

\* the IssueInfo FetchIssues makes of one search result
IssueInfoOf(issue) == [ID |-> issue.ID, Repo |-> TrimPrefix(issue.RepositoryURL)]

\* the inner loop of FetchIssues: one IssueInfo per result, appended in order
AppendPage(list, items) == list \o [i \in 1 .. Len(items) |-> IssueInfoOf(items[i])]

\* the page before the next one: the page that was just served
NextRequestPagePrev(r) == r.NextPage - 1

\* opt.ListOptions.Page for the next call
NextRequestPage(r) == r.NextPage

\* the loop's exit test
LastPage(r) == r.NextPage = 0

\* what FetchIssues returns when a call fails: no list, and the error
FetchFailure(list, e) == [list |-> <<>>, err |-> e]

\* the two grouping loops of BuildReport: a bucket is made the first time a
\* record of its repository is seen, and each record is appended to its bucket
\* the first loop with the bucket made anew for every record
RECURSIVE GroupIssuesFresh(_, _)
GroupIssuesFresh(m, recs) ==
    IF recs = <<>> THEN m
    ELSE LET i == recs[1]
             nb == [Issues |-> <<i>>, PullRequests |-> <<>>]
         IN  GroupIssuesFresh([r \in DOMAIN m \cup {i.Repo} |-> IF r = i.Repo THEN nb ELSE m[r]],
                              Tail(recs))

RECURSIVE GroupIssues(_, _)
GroupIssues(m, recs) ==
    IF recs = <<>> THEN m
    ELSE LET i == recs[1]
             b == IF i.Repo \in DOMAIN m THEN m[i.Repo]
                  ELSE [Issues |-> <<>>, PullRequests |-> <<>>]
             nb == [b EXCEPT !.Issues = Append(b.Issues, i)]
         IN  GroupIssues([r \in DOMAIN m \cup {i.Repo} |-> IF r = i.Repo THEN nb ELSE m[r]],
                         Tail(recs))

\* the second loop with each record put in front of its bucket's list
RECURSIVE GroupPullRequestsFront(_, _)
GroupPullRequestsFront(m, recs) ==
    IF recs = <<>> THEN m
    ELSE LET p == recs[1]
             b == IF p.Repo \in DOMAIN m THEN m[p.Repo]
                  ELSE [Issues |-> <<>>, PullRequests |-> <<>>]
             nb == [b EXCEPT !.PullRequests = <<p>> \o b.PullRequests]
         IN  GroupPullRequestsFront([r \in DOMAIN m \cup {p.Repo} |-> IF r = p.Repo THEN nb ELSE m[r]],
                                    Tail(recs))

RECURSIVE GroupPullRequests(_, _)
GroupPullRequests(m, recs) ==
    IF recs = <<>> THEN m
    ELSE LET p == recs[1]
             b == IF p.Repo \in DOMAIN m THEN m[p.Repo]
                  ELSE [Issues |-> <<>>, PullRequests |-> <<>>]
             nb == [b EXCEPT !.PullRequests = Append(b.PullRequests, p)]
         IN  GroupPullRequests([r \in DOMAIN m \cup {p.Repo} |-> IF r = p.Repo THEN nb ELSE m[r]],
                               Tail(recs))

\* a map that starts with an empty bucket for every known repository
AllBuckets == [r \in RepoNames |-> [Issues |-> <<>>, PullRequests |-> <<>>]]

\* make(map[string]*RepoActivityReport)
EmptyMap == [r \in {} |-> [Issues |-> <<>>, PullRequests |-> <<>>]]

\* the ActivityReport BuildReport returns once both fetches succeeded
MakeReport(is, ps) ==
    [RepoActivityReports |-> GroupPullRequests(GroupIssues(EmptyMap, is), ps),
     TotalIssues |-> Len(is),
     TotalPullRequests |-> Len(ps)]

\* a BuildReport that returns what it has when a fetch failed
BuildFailurePartial(is, e) ==
    [report |-> IF is = <<>> THEN <<>> ELSE <<MakeReport(is[1], <<>>)>>, err |-> e]

\* what BuildReport returns when a fetch failed
BuildFailure(is, e) == [report |-> <<>>, err |-> e]

----------------------------------------------------------------------------
(* Zero values *)

NoOptions == [Repos |-> <<>>, DaysOld |-> 0, APIEndpoint |-> ""]
NoEnv == [token |-> "", repos |-> <<>>, days |-> <<>>]
NoFlags == [args |-> "ok", version |-> FALSE, repos |-> <<>>, days |-> <<>>, endpoint |-> ""]
NoRequest == [days |-> <<>>]
NoResponse == [status |-> 0, body |-> <<>>]

----------------------------------------------------------------------------
(* The search backend *)

\* the repositories a query's repo: filters can match
Matching(opts) == {opts.Repos[i] : i \in 1 .. Len(opts.Repos)} \cap RepoNames

\* the host of the RepositoryURL fields the configured endpoint returns
HostOf(opts) == IF opts.APIEndpoint = "" THEN ApiHost ELSE CustomHost

\* result pages of n items; item i is the (have + i)-th record of the result
Pages(opts, k, have, n) ==
    {[i \in 1 .. n |->
        [ID |-> (IF k = "pr" THEN 100 ELSE 0) + have + i,
         RepositoryURL |-> [host |-> HostOf(opts), path |-> f[i]]]] :
     f \in [1 .. n -> Matching(opts)]}

\* the page a request for page pg is answered with: 0 asks for the first page
PageServed(pg) == IF pg = 0 THEN 1 ELSE pg

\* what one Search.Issues call for page pg can answer: an error, or a page of
\* results and a next-page marker, 0 (no further page) or the number of the
\* page after the one served
Responses(opts, k, pg, have, calls) ==
    {[err |-> "search failed", Issues |-> <<>>, NextPage |-> 0]}
    \cup
    {[err |-> "", Issues |-> items, NextPage |-> np] :
        items \in UNION {Pages(opts, k, have, n) : n \in 0 .. MaxItems - have},
        np \in IF calls + 1 < MaxRequests THEN {0, PageServed(pg) + 1} ELSE {0}}

----------------------------------------------------------------------------
(* One report build: BuildReport and the FetchIssues calls it makes *)

\* BuildReport is entered: nothing fetched yet, FetchIssues("issue") is next
EnterBuild(p) ==
    /\ kind' = [kind EXCEPT ![p] = "issue"]
    /\ query' = [query EXCEPT ![p] = <<>>]
    /\ page' = [page EXCEPT ![p] = 0]
    /\ nreq' = [nreq EXCEPT ![p] = 0]
    /\ lastResp' = [lastResp EXCEPT ![p] = <<>>]
    /\ received' = [received EXCEPT ![p] = <<>>]
    /\ issueList' = [issueList EXCEPT ![p] = <<>>]
    /\ issues' = [issues EXCEPT ![p] = <<>>]
    /\ prs' = [prs EXCEPT ![p] = <<>>]
    /\ err' = [err EXCEPT ![p] = ""]
    /\ report' = [report EXCEPT ![p] = <<>>]

\* FetchIssues up to its loop: the search options, the query, the empty list
FetchIssuesBegin(p) ==
    /\ pc[p] = "fetch"
    /\ query' = [query EXCEPT ![p] = BuildQuery(kind[p], options)]
    /\ page' = [page EXCEPT ![p] = 0]
    /\ nreq' = [nreq EXCEPT ![p] = 0]
    /\ lastResp' = [lastResp EXCEPT ![p] = <<>>]
    /\ received' = [received EXCEPT ![p] = <<>>]
    /\ issueList' = [issueList EXCEPT ![p] = <<>>]
    /\ pc' = [pc EXCEPT ![p] = "loop"]
    /\ UNCHANGED <<mainVars, flags, env, options, kind, issues, prs, err, report, searched,
                   req, resp, exitCode, stdout>>

\* FetchIssues returns: its locals query, opt and issueList are gone
Return(p) ==
    /\ query' = [query EXCEPT ![p] = <<>>]
    /\ page' = [page EXCEPT ![p] = 0]
    /\ nreq' = [nreq EXCEPT ![p] = 0]
    /\ issueList' = [issueList EXCEPT ![p] = <<>>]

\* a failed call after which the loop goes round again
SearchFailedRetry(p, r) ==
    LET f == FetchFailure(issueList[p], r.err)
        b == BuildFailure(IF kind[p] = "issue" THEN f.list ELSE issues[p], f.err)
    IN  /\ err' = [err EXCEPT ![p] = b.err]
        /\ report' = [report EXCEPT ![p] = b.report]
        /\ UNCHANGED <<pc, query, page, nreq, issueList, lastResp>>
        /\ UNCHANGED <<kind, received, issues, prs>>

\* a failed call: FetchIssues returns (nil, err) and BuildReport returns at once
SearchFailed(p, r) ==
    LET f == FetchFailure(issueList[p], r.err)
        b == BuildFailure(IF kind[p] = "issue" THEN f.list ELSE issues[p], f.err)
    IN  /\ err' = [err EXCEPT ![p] = b.err]
        /\ report' = [report EXCEPT ![p] = b.report]
        /\ pc' = [pc EXCEPT ![p] = "built"]
        /\ lastResp' = [lastResp EXCEPT ![p] = <<>>]
        /\ Return(p)
        /\ UNCHANGED <<kind, received, issues, prs>>

\* a call that succeeded: the page is appended; on the last page FetchIssues
\* returns the list to BuildReport, which goes on to the pull requests or,
\* after them, groups both lists and returns the report
SearchSucceeded(p, r) ==
    LET list == AppendPage(issueList[p], r.Issues)
    IN  /\ lastResp' = [lastResp EXCEPT ![p] = <<r.NextPage>>]
        /\ received' = [received EXCEPT ![p] = received[p] \o r.Issues]
        /\ IF ~LastPage(r)
           THEN /\ issueList' = [issueList EXCEPT ![p] = list]
                /\ page' = [page EXCEPT ![p] = NextRequestPage(r)]
                /\ nreq' = [nreq EXCEPT ![p] = nreq[p] + 1]
                /\ UNCHANGED <<pc, query, kind, issues, prs, err, report>>
           ELSE IF kind[p] = "issue"
           THEN /\ issues' = [issues EXCEPT ![p] = <<list>>]
                /\ kind' = [kind EXCEPT ![p] = "pr"]
                /\ pc' = [pc EXCEPT ![p] = "fetch"]
                /\ Return(p)
                /\ UNCHANGED <<prs, err, report>>
           ELSE /\ prs' = [prs EXCEPT ![p] = <<list>>]
                /\ report' = [report EXCEPT ![p] = <<MakeReport(issues[p][1], list)>>]
                /\ pc' = [pc EXCEPT ![p] = "built"]
                /\ Return(p)
                /\ UNCHANGED <<kind, issues, err>>

\* one pass of the loop of FetchIssues: one Search.Issues call and what follows
SearchIssues(p) ==
    /\ pc[p] = "loop"
    /\ nreq[p] < MaxRequests
    /\ searched' = [searched EXCEPT ![p] = TRUE]
    /\ \E r \in Responses(options, kind[p], page[p], Len(issueList[p]), nreq[p]) :
          IF r.err # "" THEN SearchFailed(p, r) ELSE SearchSucceeded(p, r)
    /\ UNCHANGED <<mainVars, flags, env, options, req, resp, exitCode, stdout>>

----------------------------------------------------------------------------
(* The command-line program *)

\* the flag default of -days
defaultDaysFlag == 14

\* command lines: -repos and -days as texts (<<>>: flag absent), -api-endpoint
\* absent, a URL of a self-hosted instance or a text url.Parse rejects, and
\* whether -version, -help or an undefined flag is given
ReposTexts == {<<>>, <<"a/b">>, <<"a/b", ",", "c/d">>, <<"c/d", ",", "a/b">>,
               <<"a/b", ",", "a/b">>, <<"a/b", ",">>}
DaysTexts == {<<>>, <<"0">>, <<"-", "5">>, <<"x">>}
Endpoints == {"", "https://ghe.example/api/v3/", "%zz"}
CommandLines ==
    [args : {"ok"}, version : BOOLEAN, repos : ReposTexts, days : DaysTexts,
     endpoint : Endpoints]
    \cup
    [args : {"help", "undefined"}, version : {FALSE}, repos : {<<>>}, days : {<<>>},
     endpoint : {""}]

\* url.Parse(options.APIEndpoint) fails
InvalidURL(e) == e = "%zz"

\* the outcome of flag.Parse: -help exits 0, an undefined flag or a -days value
\* that is no integer exits 2, otherwise the flag values
FlagParse(f) ==
    LET d == IF f.days = <<>> THEN [err |-> FALSE, val |-> defaultDaysFlag] ELSE Atoi(f.days)
    IN  IF f.args = "help" THEN [exit |-> 0, days |-> 0]
        ELSE IF f.args = "undefined" \/ d.err THEN [exit |-> 2, days |-> 0]
        ELSE [exit |-> -1, days |-> d.val]

\* a printed message: a format and its argument
Line(format, arg) == [text |-> format, arg |-> arg, days |-> 0, issues |-> <<>>, prs |-> <<>>]

\* os.Exit, or the panic of the main goroutine
Exit(code, out) ==
    /\ exitCode' = code
    /\ stdout' = out
    /\ pc' = [pc EXCEPT ![Main] = "exit"]

\* main up to the call of BuildReport
CliMain ==
    /\ pc[Main] = "main"
    /\ LET parsed == FlagParse(flags)
       IN  IF parsed.exit # -1
           THEN Exit(parsed.exit, <<>>) /\ UNCHANGED <<options, buildVars, searched>>
           ELSE IF flags.version
           THEN Exit(0, <<Line("Version: %s", "dev")>>) /\ UNCHANGED <<options, buildVars, searched>>
           ELSE IF flags.repos = <<>>
           THEN Exit(1, <<Line("Must set at least one repo...", "")>>)
                /\ UNCHANGED <<options, buildVars, searched>>
           ELSE /\ options' = [Repos |-> Split(flags.repos), DaysOld |-> parsed.days,
                               APIEndpoint |-> flags.endpoint]
                /\ IF InvalidURL(flags.endpoint)
                   THEN Exit(2, <<>>) /\ UNCHANGED <<buildVars, searched>>
                   ELSE /\ EnterBuild(Main)
                        /\ pc' = [pc EXCEPT ![Main] = "fetch"]
                        /\ UNCHANGED <<exitCode, stdout, searched>>
    /\ UNCHANGED <<mainVars, flags, env, req, resp>>

\* one section of the printed report: a repository, the day count of its two
\* headings, its issues table and its pull-requests table
Section(repo, days, activity) ==
    [text |-> "## Repo: %s", arg |-> repo, days |-> days,
     issues |-> activity.Issues, prs |-> activity.PullRequests]

\* the orders in which `range` can visit the keys of a map
KeyOrders(m) ==
    {o \in [1 .. Cardinality(DOMAIN m) -> DOMAIN m] :
        \A i, j \in 1 .. Cardinality(DOMAIN m) : i # j => o[i] # o[j]}

\* a main that prints the error of BuildReport and exits 0
CliReportExitZero ==
    /\ pc[Main] = "built"
    /\ IF err[Main] # ""
       THEN Exit(0, <<Line("Error: %s", err[Main])>>)
       ELSE LET m == report[Main][1].RepoActivityReports
            IN  \E o \in KeyOrders(m) :
                    Exit(0, [i \in 1 .. Len(o) |-> Section(o[i], options.DaysOld, m[o[i]])])
    /\ UNCHANGED <<mainVars, flags, env, options, buildVars, searched, req, resp>>

\* main after BuildReport returned: the error and exit 1, or the report
CliReport ==
    /\ pc[Main] = "built"
    /\ IF err[Main] # ""
       THEN Exit(1, <<Line("Error: %s", err[Main])>>)
       ELSE LET m == report[Main][1].RepoActivityReports
            IN  \E o \in KeyOrders(m) :
                    Exit(0, [i \in 1 .. Len(o) |-> Section(o[i], options.DaysOld, m[o[i]])])
    /\ UNCHANGED <<mainVars, flags, env, options, buildVars, searched, req, resp>>

----------------------------------------------------------------------------
(* The HTTP server *)

defaultDays == 14

\* environments: GITHUB_TOKEN, REPORT_REPOS and REPORT_DAYS as texts
Environments ==
    [token : {"t"}, repos : {<<"a/b">>}, days : {<<>>, <<"x">>}]
    \cup {[token |-> "", repos |-> <<"a/b">>, days |-> <<>>],
          [token |-> "t", repos |-> <<>>, days |-> <<>>]}

\* the `days` query parameters of the requests (<<>>: none)
DaysParams == {<<>>, <<"3", "0">>, <<"-", "5">>}

\* main of cmd/server up to NewServer: the Options it passes, or a fatal error
ServerOptions(e) ==
    LET d == IF e.days = <<>> THEN [err |-> FALSE, val |-> 0] ELSE Atoi(e.days)
    IN  IF e.token = "" \/ e.repos = <<>> \/ d.err
        THEN [fatal |-> TRUE, Repos |-> <<>>, DaysOld |-> 0]
        ELSE [fatal |-> FALSE, Repos |-> Split(e.repos), DaysOld |-> d.val]

\* NewServer: the options of the server, a zero day count replaced by the default
NewServer(opts) ==
    [Repos |-> opts.Repos,
     DaysOld |-> IF opts.DaysOld = 0 THEN defaultDays ELSE opts.DaysOld,
     APIEndpoint |-> ""]

\* main of cmd/server: the configuration is read and the server is started
ServerMain ==
    /\ pc[Main] = "main"
    /\ LET opts == ServerOptions(env)
       IN  IF opts.fatal
           THEN /\ exitCode' = 1
                /\ pc' = [pc EXCEPT ![Main] = "exit"]
                /\ UNCHANGED options
           ELSE /\ options' = NewServer(opts)
                /\ pc' = [pc EXCEPT ![Main] = "serving"]
                /\ UNCHANGED exitCode
    /\ UNCHANGED <<mainVars, flags, env, buildVars, searched, req, resp, stdout>>

\* Report up to the call of BuildReport: a `days` parameter that is an integer
\* is stored in the options of the server; the service is made of these options
ReportBegin(h) ==
    /\ pc[Main] = "serving"
    /\ pc[h] = "idle"
    /\ \E d \in DaysParams :
          /\ req' = [req EXCEPT ![h] = [days |-> d]]
          /\ IF d # <<>> /\ ~Atoi(d).err
             THEN options' = [options EXCEPT !.DaysOld = Atoi(d).val]
             ELSE UNCHANGED options
    /\ resp' = [resp EXCEPT ![h] = NoResponse]
    /\ EnterBuild(h)
    /\ searched' = [searched EXCEPT ![h] = FALSE]
    /\ pc' = [pc EXCEPT ![h] = "fetch"]
    /\ UNCHANGED <<mainVars, flags, env, exitCode, stdout>>

\* http.Error: the status, unless one was written already, and the text
HttpError(w, text, code) ==
    [status |-> IF w.status = 0 THEN code ELSE w.status,
     body |-> Append(w.body, [part |-> "text", text |-> text, days |-> 0, sections |-> <<>>])]

\* the buckets the page ranges over: none when the report is nil
PageReport(rep) == IF rep = <<>> THEN EmptyMap ELSE rep[1].RepoActivityReports

\* the page template: for each configured repository the day count and the
\* issues and pull requests of the bucket of that repository, if there is one
Page(data) ==
    [part |-> "page", text |-> "", days |-> data.Days,
     sections |-> [i \in 1 .. Len(data.Repos) |->
        LET m == PageReport(data.Report)
            r == data.Repos[i]
        IN  [repo |-> r,
             issues |-> IF r \in DOMAIN m THEN m[r].Issues ELSE <<>>,
             prs |-> IF r \in DOMAIN m THEN m[r].PullRequests ELSE <<>>]]]

\* tmpl.Execute(w, data): status 200 unless one was written, and the page
Execute(w, data) ==
    [status |-> IF w.status = 0 THEN 200 ELSE w.status,
     body |-> Append(w.body, Page(data))]

\* Report after BuildReport returned: the error, if any, is written with
\* status 500; then, with no return in between, the page data is made of the
\* options of the server and the returned report (nil after an error) and
\* the template is executed
ReportRespond(h) ==
    /\ pc[h] = "built"
    /\ LET w == IF err[h] # "" THEN HttpError(resp[h], err[h], 500) ELSE resp[h]
           data == [Days |-> options.DaysOld, Repos |-> options.Repos, Report |-> report[h]]
       IN  resp' = [resp EXCEPT ![h] = Execute(w, data)]
    /\ pc' = [pc EXCEPT ![h] = "done"]
    /\ UNCHANGED <<mainVars, flags, env, options, buildVars, searched, req, exitCode, stdout>>

\* Report returns: the response is complete and the goroutine ends
ReportReturn(h) ==
    /\ pc[h] = "done"
    /\ pc' = [pc EXCEPT ![h] = "idle"]
    /\ req' = [req EXCEPT ![h] = NoRequest]
    /\ resp' = [resp EXCEPT ![h] = NoResponse]
    /\ EnterBuild(h)
    /\ searched' = [searched EXCEPT ![h] = FALSE]
    /\ UNCHANGED <<mainVars, flags, env, options, exitCode, stdout>>

----------------------------------------------------------------------------
(* main of cmd/server from the context on: signal, shutdown, start and wait *)

\* the requests followed while main's goroutines are followed
InFlight == {1}

\* a signal (interrupt or SIGTERM) arrives: signal.Notify puts it in c unless
\* c is full
Signal ==
    /\ pc[Main] = "serving"
    /\ ~sigChan
    /\ sigChan' = TRUE
    /\ UNCHANGED <<flags, env, options, pc, buildVars, searched, req, resp, exitCode, stdout,
                   startShutdown, ctx, gopc, groupErr, httpServer>>

\* the signal goroutine: <-c returns and startShutdown is closed
ReceiveSignal ==
    /\ pc[Main] = "serving"
    /\ gopc["signal"] = "wait"
    /\ sigChan
    /\ sigChan' = FALSE
    /\ startShutdown' = TRUE
    /\ gopc' = [gopc EXCEPT !["signal"] = "sleep"]
    /\ UNCHANGED <<flags, env, options, pc, buildVars, searched, req, resp, exitCode, stdout,
                   ctx, groupErr, httpServer>>

\* the signal goroutine whose sleep ends without the context being cancelled
GraceElapsedNoCancel ==
    /\ pc[Main] = "serving"
    /\ gopc["signal"] = "sleep"
    /\ gopc' = [gopc EXCEPT !["signal"] = "done"]
    /\ UNCHANGED <<flags, env, options, pc, buildVars, searched, req, resp, exitCode, stdout,
                   sigChan, startShutdown, ctx, groupErr, httpServer>>

\* the signal goroutine: the sleep of 20 seconds is over and cancel() is called
GraceElapsed ==
    /\ pc[Main] = "serving"
    /\ gopc["signal"] = "sleep"
    /\ ctx' = "canceled"
    /\ gopc' = [gopc EXCEPT !["signal"] = "done"]
    /\ UNCHANGED <<flags, env, options, pc, buildVars, searched, req, resp, exitCode, stdout,
                   sigChan, startShutdown, groupErr, httpServer>>

\* errgroup: a goroutine of the group returns e; the first error is kept
GroupReturn(first, e) == IF first = "" THEN e ELSE first

\* the stop goroutine: <-startShutdown returns and srv.Shutdown(ctx) is
\* called, which closes the listener and refuses further connections
StopBegin ==
    /\ pc[Main] = "serving"
    /\ gopc["stop"] = "wait"
    /\ startShutdown
    /\ httpServer' = "shutdown"
    /\ gopc' = [gopc EXCEPT !["stop"] = "shutdown"]
    /\ UNCHANGED <<flags, env, options, pc, buildVars, searched, req, resp, exitCode, stdout,
                   sigChan, startShutdown, ctx, groupErr>>

\* no handler is running: every connection is idle
AllIdle == \A h \in Handlers : pc[h] = "idle"

\* http.Server.Shutdown returns: nil once every connection is idle, the
\* error of the context once that is cancelled; the goroutine returns
StopReturn ==
    /\ pc[Main] = "serving"
    /\ gopc["stop"] = "shutdown"
    /\ AllIdle \/ ctx = "canceled"
    /\ groupErr' = GroupReturn(groupErr, IF AllIdle THEN "" ELSE "failed to stop server")
    /\ gopc' = [gopc EXCEPT !["stop"] = "done"]
    /\ UNCHANGED <<flags, env, options, pc, buildVars, searched, req, resp, exitCode, stdout,
                   sigChan, startShutdown, ctx, httpServer>>

\* the start goroutine calls srv.Start: ListenAndServe returns
\* http.ErrServerClosed if the server is shut down already; otherwise it
\* listens, or fails to and returns that error
StartListen ==
    /\ pc[Main] = "serving"
    /\ gopc["start"] = "init"
    /\ IF httpServer = "shutdown"
       THEN /\ gopc' = [gopc EXCEPT !["start"] = "done"]
            /\ groupErr' = GroupReturn(groupErr, "")
            /\ UNCHANGED httpServer
       ELSE \/ /\ httpServer' = "listening"
               /\ gopc' = [gopc EXCEPT !["start"] = "serve"]
               /\ UNCHANGED groupErr
            \/ /\ gopc' = [gopc EXCEPT !["start"] = "done"]
               /\ groupErr' = GroupReturn(groupErr, "failed to start server")
               /\ UNCHANGED httpServer
    /\ UNCHANGED <<flags, env, options, pc, buildVars, searched, req, resp, exitCode, stdout,
                   sigChan, startShutdown, ctx>>

\* ListenAndServe returns http.ErrServerClosed after Shutdown was called; the
\* start goroutine returns nil
StartReturn ==
    /\ pc[Main] = "serving"
    /\ gopc["start"] = "serve"
    /\ httpServer = "shutdown"
    /\ gopc' = [gopc EXCEPT !["start"] = "done"]
    /\ groupErr' = GroupReturn(groupErr, "")
    /\ UNCHANGED <<flags, env, options, pc, buildVars, searched, req, resp, exitCode, stdout,
                   sigChan, startShutdown, ctx, httpServer>>

\* group.Wait returns when both goroutines of the group have returned: with
\* an error main logs it and exits through Fatal, without one main returns
MainWait ==
    /\ pc[Main] = "serving"
    /\ gopc["stop"] = "done"
    /\ gopc["start"] = "done"
    /\ exitCode' = IF groupErr # "" THEN 1 ELSE 0
    /\ pc' = [pc EXCEPT ![Main] = "exit"]
    /\ UNCHANGED <<flags, env, options, buildVars, searched, req, resp, stdout, mainVars>>

\* a request is accepted while the server listens
Accept(h) == httpServer = "listening" /\ ReportBegin(h)

\* a step of a handler: handlers run as long as the process does
HandlerStep(h) ==
    /\ pc[Main] = "serving"
    /\ \/ Accept(h)
       \/ FetchIssuesBegin(h)
       \/ SearchIssues(h)
       \/ ReportRespond(h)
       \/ ReportReturn(h)

----------------------------------------------------------------------------
(* Initial states *)


InitProcs ==
    /\ options = NoOptions
    /\ pc = [p \in Procs |-> IF p = Main THEN "main" ELSE "idle"]
    /\ kind = [p \in Procs |-> "issue"]
    /\ query = [p \in Procs |-> <<>>]
    /\ page = [p \in Procs |-> 0]
    /\ nreq = [p \in Procs |-> 0]
    /\ lastResp = [p \in Procs |-> <<>>]
    /\ received = [p \in Procs |-> <<>>]
    /\ issueList = [p \in Procs |-> <<>>]
    /\ issues = [p \in Procs |-> <<>>]
    /\ prs = [p \in Procs |-> <<>>]
    /\ err = [p \in Procs |-> ""]
    /\ report = [p \in Procs |-> <<>>]
    /\ searched = [p \in Procs |-> FALSE]
    /\ req = [p \in Procs |-> NoRequest]
    /\ resp = [p \in Procs |-> NoResponse]
    /\ exitCode = -1
    /\ stdout = <<>>
    /\ sigChan = FALSE
    /\ startShutdown = FALSE
    /\ ctx = "live"
    /\ gopc = [g \in Goroutines |-> IF g = "signal" THEN "wait" ELSE IF g = "stop" THEN "wait" ELSE "init"]
    /\ groupErr = ""
    /\ httpServer = "new"

\* the command-line program, started on any of the command lines
Init ==
    /\ flags \in CommandLines
    /\ env = NoEnv
    /\ InitProcs

Next ==
    \/ CliMain
    \/ FetchIssuesBegin(Main)
    \/ SearchIssues(Main)
    \/ CliReport

Spec == Init /\ [][Next]_vars

\* the server program, started in any of the environments
InitServer ==
    /\ flags = NoFlags
    /\ env \in Environments
    /\ InitProcs

NextServer ==
    \/ ServerMain
    \/ \E h \in Handlers :
          \/ ReportBegin(h)
          \/ FetchIssuesBegin(h)
          \/ SearchIssues(h)
          \/ ReportRespond(h)
          \/ ReportReturn(h)

SpecServer == InitServer /\ [][NextServer]_vars

\* the server program with the goroutines of main: the goroutines main starts
\* and main itself take every step they can take; signals and the steps of
\* the handlers (which wait for GitHub) may stay away
NextMain ==
    \/ ServerMain
    \/ Signal
    \/ ReceiveSignal
    \/ GraceElapsed
    \/ StopBegin
    \/ StopReturn
    \/ StartListen
    \/ StartReturn
    \/ MainWait
    \/ \E h \in InFlight : HandlerStep(h)

FairMain ==
    /\ WF_vars(ServerMain)
    /\ WF_vars(ReceiveSignal)
    /\ WF_vars(GraceElapsed)
    /\ WF_vars(StopBegin)
    /\ WF_vars(StopReturn)
    /\ WF_vars(StartListen)
    /\ WF_vars(StartReturn)
    /\ WF_vars(MainWait)

SpecMain == InitServer /\ [][NextMain]_vars /\ FairMain

----------------------------------------------------------------------------
(* Properties of the report (BuildReport) *)

\* the reports BuildReport has returned and not yet handed to a renderer
Built(p) == pc[p] = "built" /\ report[p] # <<>>

RECURSIVE SumOver(_, _)
SumOver(f, S) ==
    IF S = {} THEN 0
    ELSE LET k == CHOOSE x \in S : TRUE IN f[k] + SumOver(f, S \ {k})

\* the repository identifiers these records carry
Keys(recs) == {recs[i].Repo : i \in 1 .. Len(recs)}

\* the records of s whose repository identifier is k, in the order of s
OfRepo(s, k) == SelectSeq(s, LAMBDA x : x.Repo = k)

\* C1: the totals of a returned report are the lengths of the two fetched
\* sequences, and the bucket lists add up to the totals
C1_Totals ==
    \A p \in Procs : Built(p) =>
        LET r == report[p][1]
            m == r.RepoActivityReports
        IN  /\ r.TotalIssues = Len(issues[p][1])
            /\ r.TotalPullRequests = Len(prs[p][1])
            /\ SumOver([k \in DOMAIN m |-> Len(m[k].Issues)], DOMAIN m) = r.TotalIssues
            /\ SumOver([k \in DOMAIN m |-> Len(m[k].PullRequests)], DOMAIN m)
                   = r.TotalPullRequests

\* a report of two issues and two pull requests spread over two buckets
C1_Witness ==
    \E p \in Procs :
        /\ Built(p)
        /\ report[p][1].TotalIssues = 2
        /\ report[p][1].TotalPullRequests = 2
        /\ Cardinality(DOMAIN report[p][1].RepoActivityReports) = 2

\* C5: each bucket's Issues (PullRequests) list is exactly the fetched issues
\* (pull requests) of the bucket's repository, in fetch order, so every
\* record is in the bucket of its own repository and in no other
C5_StableGrouping ==
    \A p \in Procs : Built(p) =>
        LET m == report[p][1].RepoActivityReports
        IN  /\ Keys(issues[p][1]) \cup Keys(prs[p][1]) \subseteq DOMAIN m
            /\ \A k \in DOMAIN m :
                  /\ m[k].Issues = OfRepo(issues[p][1], k)
                  /\ m[k].PullRequests = OfRepo(prs[p][1], k)

\* issues of two repositories interleaved with a bucket that holds two pull
\* requests
C5_Witness ==
    \E p \in Procs :
        /\ Built(p)
        /\ Len(issues[p][1]) = 2
        /\ issues[p][1][1].Repo # issues[p][1][2].Repo
        /\ \E k \in DOMAIN report[p][1].RepoActivityReports :
              /\ Len(report[p][1].RepoActivityReports[k].PullRequests) = 2
              /\ Len(report[p][1].RepoActivityReports[k].Issues) = 1

\* C6: the map has a bucket for exactly the repository identifiers that a
\* fetched issue or pull request carries, and no bucket has both lists empty
C6_NoEmptyBucket ==
    \A p \in Procs : Built(p) =>
        LET m == report[p][1].RepoActivityReports
        IN  /\ DOMAIN m = Keys(issues[p][1]) \cup Keys(prs[p][1])
            /\ \A k \in DOMAIN m : m[k].Issues # <<>> \/ m[k].PullRequests # <<>>

\* two repositories are configured, records were fetched, and one of the
\* configured repositories has no bucket
C6_Witness ==
    \E p \in Procs :
        /\ Built(p)
        /\ DOMAIN report[p][1].RepoActivityReports # {}
        /\ \E i \in 1 .. Len(options.Repos) :
              /\ options.Repos[i] \in RepoNames
              /\ options.Repos[i] \notin DOMAIN report[p][1].RepoActivityReports

----------------------------------------------------------------------------
(* Properties of a failed build *)

\* the records shown by the parts of a response body or by the printed report
Shown(parts) ==
    UNION {{parts[i].issues[j] : j \in 1 .. Len(parts[i].issues)}
           \cup {parts[i].prs[j] : j \in 1 .. Len(parts[i].prs)} : i \in 1 .. Len(parts)}

PageParts(body) ==
    LET pages == SelectSeq(body, LAMBDA b : b.part = "page")
    IN  [i \in 1 .. Len(pages) |-> pages[i].sections]

RECURSIVE Flatten(_)
Flatten(ss) == IF ss = <<>> THEN <<>> ELSE ss[1] \o Flatten(Tail(ss))

\* C2: a build in which a page request failed returns the error and no
\* report, whatever earlier pages delivered, and no record is shown in the
\* response or in the printed output of that build; a report is returned only
\* after both fetches returned their lists
C2_AllOrNothing ==
    \A p \in Procs :
        /\ err[p] # "" =>
              /\ report[p] = <<>>
              /\ Shown(Flatten(PageParts(resp[p].body))) = {}
              /\ (p = Main => Shown(stdout) = {})
        /\ report[p] # <<>> => err[p] = "" /\ issues[p] # <<>> /\ prs[p] # <<>>

\* a request whose pull-requests fetch failed after a page with a record had
\* arrived, the issues fetch having returned a record too, and whose response
\* has been written
C2_Witness ==
    \E h \in Handlers :
        /\ pc[h] = "done"
        /\ err[h] # ""
        /\ received[h] # <<>>
        /\ issues[h] # <<>> /\ issues[h][1] # <<>>
        /\ resp[h].body # <<>>

\* C4: the response to a request whose build failed has status 500 and the
\* error text as its whole body: no page follows the error
C4_ErrorResponse ==
    \A h \in Handlers :
        pc[h] = "done" /\ err[h] # "" =>
            /\ resp[h].status = 500
            /\ Len(resp[h].body) = 1
            /\ resp[h].body[1].part = "text"
            /\ resp[h].body[1].text = err[h]

----------------------------------------------------------------------------
(* Properties of the day count *)

\* the day count the server was configured with at start
ConfiguredDays == NewServer(ServerOptions(env)).DaysOld

\* the day count behind a query: the distance of its date filter from today
QueryDays(q) == Today - q[Len(q)].d

\* C3: a request without a `days` parameter is built and rendered with the
\* day count the server was configured with at start
C3_DaysPerRequest ==
    \A h \in Handlers :
        req[h].days = <<>> =>
            /\ query[h] # <<>> => QueryDays(query[h]) = ConfiguredDays
            /\ pc[h] = "done" =>
                  \A i \in 1 .. Len(resp[h].body) :
                      resp[h].body[i].part = "page" => resp[h].body[i].days = ConfiguredDays

\* C9: every query is built from a non-negative day count
C9_NonNegativeDays ==
    \A p \in Procs : query[p] # <<>> => QueryDays(query[p]) >= 0

----------------------------------------------------------------------------
(* Properties of the query (BuildQuery) *)

Filters(q, f) == SelectSeq(q, LAMBDA t : t.f = f)

NoRepeats(q) == \A i, j \in 1 .. Len(q) : i # j => q[i] # q[j]

\* C7, as claimed: a query built from a non-empty repository list and a
\* non-negative day count has one type filter, one date filter, one
\* repository filter for each repository of the list, and no filter twice
C7_OneFilterEach ==
    \A p \in Procs :
        query[p] # <<>> /\ options.Repos # <<>> /\ options.DaysOld >= 0 =>
            /\ Len(Filters(query[p], "is")) = 1
            /\ Len(Filters(query[p], "created>=")) = 1
            /\ \A i \in 1 .. Len(options.Repos) :
                  Len(SelectSeq(query[p],
                                LAMBDA t : t.f = "repo" /\ t.v = options.Repos[i])) = 1
            /\ NoRepeats(query[p])

\* C7, amended: one type filter (of the requested kind), one date filter (of
\* the cutoff date) and, in list order, one repository filter for each entry
\* of the list; no filter occurs twice when no entry of the list does.
\* (Stated for the command-line program, whose options do not change between
\* the call of BuildQuery and the use of the query.)
C7_OneFilterPerEntry ==
    \A p \in Procs :
        query[p] # <<>> /\ options.Repos # <<>> /\ options.DaysOld >= 0 =>
            /\ Len(query[p]) = Len(options.Repos) + 2
            /\ Len(Filters(query[p], "is")) = 1
            /\ Filters(query[p], "is")[1].v = kind[p]
            /\ Len(Filters(query[p], "created>=")) = 1
            /\ Filters(query[p], "created>=")[1].d = Today - options.DaysOld
            /\ LET rs == Filters(query[p], "repo")
               IN  /\ Len(rs) = Len(options.Repos)
                   /\ \A i \in 1 .. Len(rs) : rs[i].v = options.Repos[i]
            /\ NoRepeats(options.Repos) => NoRepeats(query[p])

\* a query for the pull requests of two different repositories of the last
\* fourteen days
C7_Witness ==
    /\ query[Main] # <<>>
    /\ kind[Main] = "pr"
    /\ Len(options.Repos) = 2
    /\ options.Repos[1] # options.Repos[2]
    /\ options.DaysOld = 14

----------------------------------------------------------------------------
(* Properties of the command-line program *)

\* C8, as claimed: the exit status is non-zero exactly when the repository
\* list is missing or the build returned an error, and no search is made when
\* the list is missing or the version is asked for
C8_ExitStatus ==
    /\ pc[Main] = "exit" =>
          (exitCode # 0 <=> (flags.repos = <<>> \/ err[Main] # ""))
    /\ flags.repos = <<>> \/ flags.version => ~searched[Main]

\* C8, amended: the exit status is non-zero exactly when the command line
\* does not parse (an undefined flag, a -days value that is no integer) or,
\* the command line parsing and neither -help nor -version being given, when
\* the repository list is missing, the -api-endpoint is no URL or the build
\* returned an error
C8_ExitStatusAmended ==
    LET unparsed == flags.args = "undefined" \/ flags.days \notin {<<>>, <<"0">>, <<"-", "5">>}
        early == flags.args = "help" \/ flags.version
    IN  /\ pc[Main] = "exit" =>
              (exitCode # 0 <=>
                  \/ unparsed
                  \/ ~early /\ (flags.repos = <<>> \/ flags.endpoint = "%zz" \/ err[Main] # ""))
        /\ flags.repos = <<>> \/ flags.version => ~searched[Main]

\* the program has exited after a build that failed on a later page
C8_Witness ==
    /\ pc[Main] = "exit"
    /\ err[Main] # ""
    /\ received[Main] # <<>>
    /\ exitCode = 1

----------------------------------------------------------------------------
(* Properties of the pagination (FetchIssues) *)

\* the IssueInfos of the received result items, in order of arrival
Infos(items) == [i \in 1 .. Len(items) |-> IssueInfoOf(items[i])]

\* C10: the first request asks for the first page (page 0), each later one
\* for the next-page marker of the response before it, which was not zero;
\* the list holds the items of the pages received so far in order of arrival;
\* FetchIssues returns at the first response whose marker is zero, and what it
\* returns is the list of all items received
C10_Pagination ==
    \A p \in Procs :
        /\ pc[p] = "loop" =>
              /\ issueList[p] = Infos(received[p])
              /\ nreq[p] = 0 => page[p] = 0 /\ lastResp[p] = <<>> /\ received[p] = <<>>
              /\ nreq[p] > 0 =>
                    /\ lastResp[p] # <<>>
                    /\ lastResp[p][1] # 0
                    /\ page[p] = lastResp[p][1]
                    /\ page[p] = nreq[p] + 1
        /\ pc[p] = "fetch" /\ kind[p] = "pr" =>
              /\ lastResp[p] = <<0>>
              /\ issues[p] = <<Infos(received[p])>>
        /\ pc[p] = "built" /\ err[p] = "" =>
              /\ lastResp[p] = <<0>>
              /\ prs[p] = <<Infos(received[p])>>

\* the pull-requests fetch is about to ask for the second page, the first
\* page having delivered a record
C10_Witness ==
    \E p \in Procs :
        /\ pc[p] = "loop"
        /\ kind[p] = "pr"
        /\ nreq[p] = 1
        /\ page[p] = 2
        /\ Len(issueList[p]) = 1

----------------------------------------------------------------------------
(* C11: a failed search request is the last one of its build *)

\* process p is inside FetchIssues, before or in its loop
Fetching(p) == pc[p] \in {"fetch", "loop"}

\* once a build has an error it makes no request and starts no fetch, and the
\* pull-requests fetch is only ever entered with the issues list returned
C11_FailureEnds ==
    \A p \in Procs :
        /\ err[p] # "" =>
              /\ ~Fetching(p)
              /\ ~ENABLED SearchIssues(p)
              /\ ~ENABLED FetchIssuesBegin(p)
              /\ report[p] = <<>>
              /\ prs[p] = <<>>
              /\ kind[p] = "issue" => issues[p] = <<>>
        /\ Fetching(p) /\ kind[p] = "pr" => issues[p] # <<>> /\ err[p] = ""

\* a step of a build that has failed: nothing is requested or received, the
\* fetch at hand stays the one that failed
C11_NoRequestAfterFailure ==
    \A p \in Procs :
        err[p] # "" =>
            /\ ~SearchIssues(p)
            /\ ~FetchIssuesBegin(p)
            /\ err'[p] # "" =>
                  /\ kind'[p] = kind[p]
                  /\ received'[p] = received[p]
                  /\ nreq'[p] = nreq[p]
                  /\ page'[p] = page[p]
                  /\ query'[p] = query[p]
            /\ err'[p] = "" => pc'[p] = "idle"

\* C11: within one report build a failed search request is the last search
\* request of that build: the failed page is not retried, no later page is
\* requested, and after a failed issues fetch the pull-requests fetch is never
\* started; the pull-requests fetch begins only after the issues fetch has
\* returned its list without error
C11_FailedRequestIsLast == []C11_FailureEnds /\ [][C11_NoRequestAfterFailure]_vars

\* the issues fetch has failed on its second page, the first page having
\* delivered a record, and the build has returned the error
C11_Witness ==
    \E p \in Procs :
        /\ pc[p] = "built"
        /\ err[p] # ""
        /\ kind[p] = "issue"
        /\ Len(received[p]) = 1
        /\ issues[p] = <<>>
        /\ prs[p] = <<>>

----------------------------------------------------------------------------
(* C12: one day count per request under concurrent requests *)

\* the day count request h selected: its `days` parameter when that is an
\* integer, the configured day count otherwise
SelectedDays(h) ==
    IF req[h].days # <<>> /\ ~Atoi(req[h].days).err
    THEN Atoi(req[h].days).val
    ELSE ConfiguredDays

\* the day counts of the pages written to a response
PageDays(w) == {w.body[i].days : i \in {j \in 1 .. Len(w.body) : w.body[j].part = "page"}}

\* C12: under every interleaving of the requests, the issues query and the
\* pull-requests query of a request are built from, and its page shows, the
\* day count that request selected
C12_OneDayCountPerRequest ==
    \A h \in Handlers :
        /\ query[h] # <<>> => QueryDays(query[h]) = SelectedDays(h)
        /\ pc[h] = "done" => PageDays(resp[h]) = {SelectedDays(h)}

----------------------------------------------------------------------------
(* C13, C14: the server process exits *)

\* a signal has arrived at the process
Signalled == sigChan \/ gopc["signal"] # "wait"

Exited == pc[Main] = "exit"

\* the shutdown is started by the signal and by nothing else, the context is
\* cancelled only by the signal goroutine after its sleep, and Shutdown fails
\* only with the context cancelled
C13_Grace ==
    /\ startShutdown <=> gopc["signal"] # "wait"
    /\ gopc["stop"] # "wait" => startShutdown
    /\ ctx = "canceled" <=> gopc["signal"] = "done"
    /\ groupErr = "failed to stop server" => ctx = "canceled"

\* C13: after a signal has arrived the process eventually exits, also when a
\* report build in flight never completes: the shutdown starts with the
\* signal, and after the grace period the context is cancelled, so that
\* Shutdown returns with the build completed or abandoned
C13_SignalExits == (Signalled ~> Exited) /\ []C13_Grace

\* the process has exited after the grace period with a build still running
C13_Witness ==
    /\ Exited
    /\ exitCode = 1
    /\ ctx = "canceled"
    /\ groupErr = "failed to stop server"
    /\ \E h \in Handlers : pc[h] = "loop"

\* C14: if the listener fails to start and no signal ever arrives, the
\* process eventually exits, reporting the failure
C14_StartFailureExits ==
    (groupErr = "failed to start server") ~> ((Exited /\ exitCode = 1) \/ Signalled)

====
